---- MODULE Spec2Model ----
(***************************************************************************)
(* Model of the ledger engine of src/src/main.rs: process_records folds an *)
(* ordered stream of TransactionRecord over a HashMap<u16, Account>.       *)
(*                                                                         *)
(* A Decimal is modelled as an integer count of its smallest unit.  The    *)
(* library type has a sign and a 96-bit mantissa, so its range is          *)
(* symmetric, and its += and -= operators panic when the result leaves the *)
(* range.  DecimalMax stands for Decimal::MAX at the model's scale.  Within *)
(* the range the model's arithmetic is exact: every amount has the same    *)
(* scale, so the library's rounding of operands of different scales is not *)
(* part of the model.                                                      *)
(***************************************************************************)
EXTENDS Integers, Sequences, FiniteSets, TLC

\* ---------------------------------------------------------------- bounds
\* Decimal::MAX at the model's scale.
DecimalMax == 1

\* The longest stream of records the model feeds to process_records.
MaxEvents == 4

\* The longest stream of records whose deposit tx ids are unique.
MaxEventsUniqueTx == 5

\* The longest stream of records that all name one client.
MaxEventsOneClient == 7

\* client: u16 and tx: u32, drawn from small sets.
Clients == {1, 2}
Txs == {1, 2}

\* The amounts of the records.  The reader accepts any Decimal, negative
\* ones included.
Amounts == {-1, 1, DecimalMax}

\* ---------------------------------------------------------------- types
\* Option<Decimal>: None is <<>>, Some(a) is <<a>>.
None == <<>>
Some(a) == <<a>>
IsSome(o) == Len(o) = 1
Unwrap(o) == o[1]

TransactionType == {"Deposit", "Withdrawal", "Dispute", "Resolve", "Chargeback"}

\* The records the reader can hand to the engine.  Deposits and withdrawals
\* come with or without an amount; the other kinds carry None.
TransactionRecord ==
    [tx_type : {"Deposit", "Withdrawal"}, client : Clients, tx : Txs,
     amount : {Some(a) : a \in Amounts} \cup {None}]
    \cup
    [tx_type : {"Dispute", "Resolve", "Chargeback"}, client : Clients, tx : Txs,
     amount : {None}]

DepositTx(amount, disputed) == [amount |-> amount, disputed |-> disputed]

\* Account::new()
AccountNew == [available |-> 0, held |-> 0, locked |-> FALSE, deposits |-> <<>>]

\* ------------------------------------------------------- Decimal arithmetic
\* Whether a result is representable; += and -= panic when it is not.
Fits(x) == -DecimalMax <= x /\ x <= DecimalMax

\* The outcome of handling one record on one account: the account as the
\* handler left it, and whether an arithmetic operator panicked on the way.
Done(acct) == [panicked |-> FALSE, account |-> acct]
Panic(acct) == [panicked |-> TRUE, account |-> acct]

\* HashMap::insert on a map modelled as a function.
Insert(map, k, v) == [x \in DOMAIN map \cup {k} |-> IF x = k THEN v ELSE map[x]]

\* ---------------------------------------------------------------- handlers
\* Deposit that starts a new history with its record instead of inserting it.
DepositClearsHistory(acct, r) ==
    IF IsSome(r.amount)
    THEN LET amount == Unwrap(r.amount) IN
         IF ~Fits(acct.available + amount)
         THEN Panic(acct)
         ELSE Done([acct EXCEPT
                      !.available = acct.available + amount,
                      !.deposits = Insert(<<>>, r.tx,
                                          DepositTx(amount, FALSE))])
    ELSE Done(acct)

\* TransactionType::Deposit (lines 78-89).
Deposit(acct, r) ==
    IF IsSome(r.amount)
    THEN LET amount == Unwrap(r.amount) IN
         IF ~Fits(acct.available + amount)
         THEN Panic(acct)
         ELSE Done([acct EXCEPT
                      !.available = acct.available + amount,
                      !.deposits = Insert(acct.deposits, r.tx,
                                          DepositTx(amount, FALSE))])
    ELSE Done(acct)

\* Withdrawal that enters its own record in the history, as a Deposit does.
WithdrawalRecordsTx(acct, r) ==
    IF IsSome(r.amount) /\ acct.available >= Unwrap(r.amount)
    THEN LET amount == Unwrap(r.amount) IN
         IF ~Fits(acct.available - amount)
         THEN Panic(acct)
         ELSE Done([acct EXCEPT
                      !.available = acct.available - amount,
                      !.deposits = Insert(acct.deposits, r.tx,
                                          DepositTx(amount, FALSE))])
    ELSE Done(acct)

\* Withdrawal that checks the amount against the total, available + held.
WithdrawalChecksTotal(acct, r) ==
    IF IsSome(r.amount) /\ acct.available + acct.held >= Unwrap(r.amount)
    THEN LET amount == Unwrap(r.amount) IN
         IF ~Fits(acct.available - amount)
         THEN Panic(acct)
         ELSE Done([acct EXCEPT !.available = acct.available - amount])
    ELSE Done(acct)

\* Withdrawal without the funds check of line 92.
WithdrawalNoFundsCheck(acct, r) ==
    IF IsSome(r.amount)
    THEN LET amount == Unwrap(r.amount) IN
         IF ~Fits(acct.available - amount)
         THEN Panic(acct)
         ELSE Done([acct EXCEPT !.available = acct.available - amount])
    ELSE Done(acct)

\* TransactionType::Withdrawal (lines 90-96).
Withdrawal(acct, r) ==
    IF IsSome(r.amount) /\ acct.available >= Unwrap(r.amount)
    THEN LET amount == Unwrap(r.amount) IN
         IF ~Fits(acct.available - amount)
         THEN Panic(acct)
         ELSE Done([acct EXCEPT !.available = acct.available - amount])
    ELSE Done(acct)

\* Dispute without the check of line 100 that the record is not disputed.
DisputeNoFlagCheck(acct, r) ==
    IF r.tx \in DOMAIN acct.deposits
    THEN LET amount == acct.deposits[r.tx].amount
             a1 == [acct EXCEPT !.available = acct.available - amount]
             a2 == [a1 EXCEPT !.held = acct.held + amount]
         IN  IF ~Fits(acct.available - amount) THEN Panic(acct)
             ELSE IF ~Fits(acct.held + amount) THEN Panic(a1)
             ELSE Done([a2 EXCEPT !.deposits[r.tx].disputed = TRUE])
    ELSE Done(acct)

\* TransactionType::Dispute (lines 97-106).
Dispute(acct, r) ==
    IF r.tx \in DOMAIN acct.deposits /\ ~acct.deposits[r.tx].disputed
    THEN LET amount == acct.deposits[r.tx].amount
             a1 == [acct EXCEPT !.available = acct.available - amount]
             a2 == [a1 EXCEPT !.held = acct.held + amount]
         IN  IF ~Fits(acct.available - amount) THEN Panic(acct)
             ELSE IF ~Fits(acct.held + amount) THEN Panic(a1)
             ELSE Done([a2 EXCEPT !.deposits[r.tx].disputed = TRUE])
    ELSE Done(acct)

\* Resolve without the check of line 109 that the record is disputed.
ResolveNoFlagCheck(acct, r) ==
    IF r.tx \in DOMAIN acct.deposits
    THEN LET amount == acct.deposits[r.tx].amount
             a1 == [acct EXCEPT !.held = acct.held - amount]
             a2 == [a1 EXCEPT !.available = acct.available + amount]
         IN  IF ~Fits(acct.held - amount) THEN Panic(acct)
             ELSE IF ~Fits(acct.available + amount) THEN Panic(a1)
             ELSE Done([a2 EXCEPT !.deposits[r.tx].disputed = FALSE])
    ELSE Done(acct)

\* Resolve that leaves the record's disputed flag set (line 112 missing).
ResolveKeepsDisputed(acct, r) ==
    IF r.tx \in DOMAIN acct.deposits /\ acct.deposits[r.tx].disputed
    THEN LET amount == acct.deposits[r.tx].amount
             a1 == [acct EXCEPT !.held = acct.held - amount]
             a2 == [a1 EXCEPT !.available = acct.available + amount]
         IN  IF ~Fits(acct.held - amount) THEN Panic(acct)
             ELSE IF ~Fits(acct.available + amount) THEN Panic(a1)
             ELSE Done(a2)
    ELSE Done(acct)

\* TransactionType::Resolve (lines 107-115).
Resolve(acct, r) ==
    IF r.tx \in DOMAIN acct.deposits /\ acct.deposits[r.tx].disputed
    THEN LET amount == acct.deposits[r.tx].amount
             a1 == [acct EXCEPT !.held = acct.held - amount]
             a2 == [a1 EXCEPT !.available = acct.available + amount]
         IN  IF ~Fits(acct.held - amount) THEN Panic(acct)
             ELSE IF ~Fits(acct.available + amount) THEN Panic(a1)
             ELSE Done([a2 EXCEPT !.deposits[r.tx].disputed = FALSE])
    ELSE Done(acct)

\* Chargeback that locks the account before looking the record up.
ChargebackLocksFirst(acct, r) ==
    IF r.tx \in DOMAIN acct.deposits /\ acct.deposits[r.tx].disputed
    THEN LET amount == acct.deposits[r.tx].amount
             a1 == [acct EXCEPT !.held = acct.held - amount]
         IN  IF ~Fits(acct.held - amount) THEN Panic(acct)
             ELSE Done([a1 EXCEPT !.locked = TRUE,
                                  !.deposits[r.tx].disputed = FALSE])
    ELSE Done([acct EXCEPT !.locked = TRUE])

\* Chargeback that leaves held as it is (line 119 missing).
ChargebackKeepsHeld(acct, r) ==
    IF r.tx \in DOMAIN acct.deposits /\ acct.deposits[r.tx].disputed
    THEN Done([acct EXCEPT !.locked = TRUE,
                           !.deposits[r.tx].disputed = FALSE])
    ELSE Done(acct)

\* Chargeback that leaves the record's disputed flag set (line 121 missing).
ChargebackKeepsDisputed(acct, r) ==
    IF r.tx \in DOMAIN acct.deposits /\ acct.deposits[r.tx].disputed
    THEN LET amount == acct.deposits[r.tx].amount
             a1 == [acct EXCEPT !.held = acct.held - amount]
         IN  IF ~Fits(acct.held - amount) THEN Panic(acct)
             ELSE Done([a1 EXCEPT !.locked = TRUE])
    ELSE Done(acct)

\* TransactionType::Chargeback (lines 116-124).
Chargeback(acct, r) ==
    IF r.tx \in DOMAIN acct.deposits /\ acct.deposits[r.tx].disputed
    THEN LET amount == acct.deposits[r.tx].amount
             a1 == [acct EXCEPT !.held = acct.held - amount]
         IN  IF ~Fits(acct.held - amount) THEN Panic(acct)
             ELSE Done([a1 EXCEPT !.locked = TRUE,
                                  !.deposits[r.tx].disputed = FALSE])
    ELSE Done(acct)

\* match record.tx_type (lines 77-125).
Dispatch(acct, r) ==
    CASE r.tx_type = "Deposit" -> Deposit(acct, r)
      [] r.tx_type = "Withdrawal" -> Withdrawal(acct, r)
      [] r.tx_type = "Dispute" -> Dispute(acct, r)
      [] r.tx_type = "Resolve" -> Resolve(acct, r)
      [] r.tx_type = "Chargeback" -> Chargeback(acct, r)

\* accounts.entry(record.client).or_insert_with(Account::new) (line 70).
EntryOrInsert(map, client) ==
    IF client \in DOMAIN map THEN map ELSE Insert(map, client, AccountNew)

\* HandleRecord without the lock check of lines 72-75.
HandleRecordNoLockCheck(acct, r) == Dispatch(acct, r)

\* The lock check (lines 72-75) and then the dispatch, on the record's account.
HandleRecord(acct, r) ==
    IF acct.locked THEN Done(acct) ELSE Dispatch(acct, r)

\* ProcessRecord that creates an account only for a Deposit: any other record
\* for a client not yet in the mapping is dropped before line 70.
ProcessRecordCreatesOnDeposit(map, r) ==
    IF r.client \notin DOMAIN map /\ r.tx_type # "Deposit"
    THEN [panicked |-> FALSE, accounts |-> map]
    ELSE LET m1 == EntryOrInsert(map, r.client)
             out == HandleRecord(m1[r.client], r)
         IN  [panicked |-> out.panicked,
              accounts |-> [m1 EXCEPT ![r.client] = out.account]]

\* ProcessRecord with one deposit history shared by all clients: a record
\* found under another client's key is handled on that client's account.
ProcessRecordSharedHistory(map, r) ==
    LET m1 == EntryOrInsert(map, r.client)
        owners == {c \in DOMAIN m1 : r.tx \in DOMAIN m1[c].deposits}
        target == IF r.tx_type \in {"Dispute", "Resolve", "Chargeback"}
                     /\ r.tx \notin DOMAIN m1[r.client].deposits
                     /\ owners # {}
                  THEN CHOOSE c \in owners : TRUE
                  ELSE r.client
        out == HandleRecord(m1[target], r)
    IN  [panicked |-> out.panicked,
         accounts |-> [m1 EXCEPT ![target] = out.account]]

\* One iteration of the loop (lines 68-126) on a whole mapping: the mapping
\* after it and whether it panicked.
ProcessRecord(map, r) ==
    LET m1 == EntryOrInsert(map, r.client)
        out == HandleRecord(m1[r.client], r)
    IN  [panicked |-> out.panicked,
         accounts |-> [m1 EXCEPT ![r.client] = out.account]]

\* process_records from a given mapping (lines 65-128): the fold over a stream,
\* which a panic ends on the spot.
RECURSIVE RunFrom(_, _)
RunFrom(st, records) ==
    IF records = <<>> \/ st.panicked
    THEN st
    ELSE RunFrom(ProcessRecord(st.accounts, Head(records)), Tail(records))

\* The account the loop works on for a client: the one in the mapping, or
\* the one line 70 creates.
AccountOf(map, client) ==
    IF client \in DOMAIN map THEN map[client] ELSE AccountNew

\* ---------------------------------------------------------------- state
\* The engine started with no records: process_records on the empty stream.
Fresh == [panicked |-> FALSE, accounts |-> <<>>]

\* Whether handling r took effect: the iteration completed and left the
\* client's account different from the one it found.
TookEffect(map, r) ==
    LET out == ProcessRecord(map, r) IN
      ~out.panicked
        /\ AccountOf(out.accounts, r.client) # AccountOf(map, r.client)

\* The open disputes per client and tx after r: a Dispute that took effect
\* opens one, a Resolve or Chargeback that took effect closes one.
OpenAfter(op, map, r) ==
    IF ~TookEffect(map, r) THEN op
    ELSE IF r.tx_type = "Dispute"
         THEN [op EXCEPT ![r.client][r.tx] = @ + 1]
    ELSE IF r.tx_type \in {"Resolve", "Chargeback"}
         THEN [op EXCEPT ![r.client][r.tx] = @ - 1]
    ELSE op

\* Whether r is a Deposit carrying a tx that the client's history already
\* holds.
ReusesTx(map, r) ==
    /\ r.tx_type = "Deposit"
    /\ r.tx \in DOMAIN AccountOf(map, r.client).deposits

\* Whether r is a Deposit that overwrites a record whose disputed flag is set.
OverwritesDisputed(map, r) ==
    /\ ReusesTx(map, r)
    /\ AccountOf(map, r.client).deposits[r.tx].disputed
    /\ TookEffect(map, r)

VARIABLES
    accounts,   \* the HashMap<u16, Account> of process_records
    pc,         \* "running" in the loop, "returned" after line 127,
                \* "panicked" once an arithmetic operator panicked
    last,       \* the record the loop handled last (<<>> before the first)
    n,          \* how many records the loop has taken from the iterator
    seen,       \* history: the client ids of the records taken so far
    before,     \* history: the account of last.client as the loop found it
    open,       \* history: per client and tx, the disputes opened and not
                \* yet closed
    overwritten,\* history: the <<client, tx>> whose record a Deposit overwrote
                \* while it was disputed
    shards      \* per client, process_records run on that client's records
                \* alone, in their order in the stream

vars == <<accounts, pc, last, n, seen, before, open, overwritten, shards>>

Init ==
    /\ accounts = <<>>
    /\ pc = "running"
    /\ last = <<>>
    /\ n = 0
    /\ seen = {}
    /\ before = AccountNew
    /\ open = [c \in Clients |-> [t \in Txs |-> 0]]
    /\ overwritten = {}
    /\ shards = [c \in Clients |-> Fresh]

\* The loop takes the next record from the iterator and handles it.
Step(r, bound) ==
    /\ pc = "running"
    /\ n < bound
    /\ LET out == ProcessRecord(accounts, r) IN
         /\ accounts' = out.accounts
         /\ pc' = IF out.panicked THEN "panicked" ELSE "running"
    /\ last' = r
    /\ n' = n + 1
    /\ seen' = seen \cup {r.client}
    /\ before' = AccountOf(accounts, r.client)
    /\ open' = OpenAfter(open, accounts, r)
    /\ overwritten' = IF OverwritesDisputed(accounts, r)
                      THEN overwritten \cup {<<r.client, r.tx>>}
                      ELSE overwritten
    /\ shards' = [shards EXCEPT ![r.client] = RunFrom(@, <<r>>)]

\* The iterator is exhausted: process_records returns the mapping (line 127).
Return ==
    /\ pc = "running"
    /\ pc' = "returned"
    /\ UNCHANGED <<accounts, last, n, seen, before, open, overwritten, shards>>

Next ==
    \/ \E r \in TransactionRecord : Step(r, MaxEvents)
    \/ Return

Spec == Init /\ [][Next]_vars

\* The streams whose records all name the same client: longer runs of one
\* account.
NextOneClient ==
    \/ \E r \in {x \in TransactionRecord : x.client = 1} :
          Step(r, MaxEventsOneClient)
    \/ Return

SpecOneClient == Init /\ [][NextOneClient]_vars

\* The streams whose Deposit amounts are all non-negative.
NextNonNegDeposits ==
    \/ \E r \in {x \in TransactionRecord :
                   (x.tx_type = "Deposit" /\ IsSome(x.amount))
                     => Unwrap(x.amount) >= 0} :
          Step(r, MaxEvents)
    \/ Return

SpecNonNegDeposits == Init /\ [][NextNonNegDeposits]_vars

\* The streams whose deposit tx ids are unique within each client's history.
NextUniqueTx ==
    \/ \E r \in {x \in TransactionRecord : ~ReusesTx(accounts, x)} :
          Step(r, MaxEventsUniqueTx)
    \/ Return

SpecUniqueTx == Init /\ [][NextUniqueTx]_vars

TypeOK ==
    /\ pc \in {"running", "returned", "panicked"}
    /\ n \in Nat
    /\ DOMAIN accounts \subseteq Clients
    /\ \A c \in DOMAIN accounts :
         /\ Fits(accounts[c].available)
         /\ Fits(accounts[c].held)
         /\ accounts[c].locked \in BOOLEAN
         /\ DOMAIN accounts[c].deposits \subseteq Txs

\* ---------------------------------------------------------------- claims
\* A step of the loop: a record was taken and handled (last' is that record).
Handled == n' = n + 1

\* The account of the handled record's client before and after the step.
Before == AccountOf(accounts, last'.client)
After == AccountOf(accounts', last'.client)

\* C1: once an account's locked flag is true, no step changes any field of
\* that account (available, held, locked, deposit history with every
\* disputed flag), whatever record arrives; so locked never goes back to false.
C1_LockFreezes ==
    [][\A c \in DOMAIN accounts :
         accounts[c].locked =>
           c \in DOMAIN accounts' /\ accounts'[c] = accounts[c]]_vars

\* A deposit with an amount was handled for an account that was locked.
C1_Witness ==
    /\ n > 0
    /\ last.tx_type = "Deposit"
    /\ IsSome(last.amount)
    /\ accounts[last.client].locked

\* A Chargeback on an unlocked account whose record for tx is disputed.
ChargebackCase ==
    /\ Handled
    /\ last'.tx_type = "Chargeback"
    /\ ~Before.locked
    /\ last'.tx \in DOMAIN Before.deposits
    /\ Before.deposits[last'.tx].disputed

\* C2: a Chargeback on an unlocked account whose record for tx is disputed
\* decreases held by exactly record.amount, leaves available unchanged, sets
\* locked and clears the record's disputed flag.
C2_ChargebackShrinksTotal ==
    [][ChargebackCase =>
         /\ After.held = Before.held - Before.deposits[last'.tx].amount
         /\ After.available = Before.available
         /\ After.available + After.held
              = Before.available + Before.held - Before.deposits[last'.tx].amount
         /\ After.locked
         /\ ~After.deposits[last'.tx].disputed]_vars

\* A Dispute on an unlocked account whose record for tx is not disputed.
DisputeCase ==
    /\ Handled
    /\ last'.tx_type = "Dispute"
    /\ ~Before.locked
    /\ last'.tx \in DOMAIN Before.deposits
    /\ ~Before.deposits[last'.tx].disputed

\* C3: a Dispute on an unlocked account whose record for tx is not disputed
\* increases held by exactly record.amount, decreases available by exactly
\* record.amount, sets the record's disputed flag, and leaves total and locked
\* unchanged, whatever available is.
C3_DisputeConservation ==
    [][DisputeCase =>
         /\ After.held = Before.held + Before.deposits[last'.tx].amount
         /\ After.available = Before.available - Before.deposits[last'.tx].amount
         /\ After.deposits[last'.tx].disputed
         /\ After.available + After.held = Before.available + Before.held
         /\ After.locked = Before.locked]_vars

\* The Resolve and Chargeback records.
ResolveOrChargeback ==
    {r \in TransactionRecord : r.tx_type \in {"Resolve", "Chargeback"}}

\* The loop's state as RunFrom takes it.
Current == [panicked |-> FALSE, accounts |-> accounts]

\* C4: from any state the loop can be in, a stream of the same Resolve record
\* twice leaves the same mapping as that record once, and likewise for the
\* same Chargeback record twice.
C4_IdempotentGuard ==
    pc = "running" =>
      \A r \in ResolveOrChargeback :
        RunFrom(Current, <<r, r>>) = RunFrom(Current, <<r>>)

\* A state in which a Resolve and a Chargeback each take effect the first
\* time: the Resolve moves held funds back, the Chargeback locks the account.
C4_Witness ==
    /\ pc = "running"
    /\ \E r \in ResolveOrChargeback :
         LET once == RunFrom(Current, <<r>>) IN
           /\ r.tx_type = "Resolve"
           /\ r.client \in DOMAIN accounts
           /\ ~once.panicked
           /\ once.accounts[r.client].held # accounts[r.client].held
           /\ once.accounts[r.client].available # accounts[r.client].available
    /\ \E r \in ResolveOrChargeback :
         LET once == RunFrom(Current, <<r>>) IN
           /\ r.tx_type = "Chargeback"
           /\ r.client \in DOMAIN accounts
           /\ ~once.panicked
           /\ once.accounts[r.client].locked
           /\ ~accounts[r.client].locked

\* A Withdrawal of more than the account's available funds.
InsufficientCase ==
    /\ Handled
    /\ last'.tx_type = "Withdrawal"
    /\ IsSome(last'.amount)
    /\ Unwrap(last'.amount) > Before.available

\* C5: a Withdrawal whose amount is greater than the account's available
\* leaves available, held, locked and the deposit history of the account
\* unchanged and the loop running, also when available is negative.
C5_InsufficiencyIsSafe ==
    [][InsufficientCase => After = Before /\ pc' = "running"]_vars

\* A Withdrawal of more than available was handled on an unlocked account
\* whose available is negative and whose history is not empty.
C5_Witness ==
    /\ n > 0
    /\ pc = "running"
    /\ last.tx_type = "Withdrawal"
    /\ IsSome(last.amount)
    /\ ~accounts[last.client].locked
    /\ Unwrap(last.amount) > accounts[last.client].available
    /\ accounts[last.client].available < 0
    /\ DOMAIN accounts[last.client].deposits # {}

\* A Dispute, Resolve or Chargeback whose tx has no record in the client's
\* deposit history.
UnknownReferenceCase ==
    /\ Handled
    /\ last'.tx_type \in {"Dispute", "Resolve", "Chargeback"}
    /\ last'.tx \notin DOMAIN Before.deposits

\* C6: a Dispute, Resolve or Chargeback whose tx has no record in the
\* client's deposit history leaves available, held, locked and the deposit
\* history of the account unchanged and the loop running.
C6_UnknownReferencesAreSafe ==
    [][UnknownReferenceCase => After = Before /\ pc' = "running"]_vars

\* A Chargeback on an unknown tx was handled on an unlocked account that
\* holds a disputed record for another tx.
C6_Witness ==
    /\ n > 0
    /\ pc = "running"
    /\ last.tx_type = "Chargeback"
    /\ ~accounts[last.client].locked
    /\ last.tx \notin DOMAIN accounts[last.client].deposits
    /\ \E t \in DOMAIN accounts[last.client].deposits :
         accounts[last.client].deposits[t].disputed

\* The Dispute and the Resolve record of a client and a tx.
DisputeOf(c, t) == [tx_type |-> "Dispute", client |-> c, tx |-> t, amount |-> None]
ResolveOf(c, t) == [tx_type |-> "Resolve", client |-> c, tx |-> t, amount |-> None]

\* C7: for any unlocked account the loop can hold and any tx with an
\* undisputed record, Dispute(tx) immediately followed by Resolve(tx) returns
\* the mapping to exactly the state before the Dispute.
C7_DisputeResolveRoundTrip ==
    pc = "running" =>
      \A c \in DOMAIN accounts : \A t \in DOMAIN accounts[c].deposits :
        (~accounts[c].locked /\ ~accounts[c].deposits[t].disputed) =>
          RunFrom(Current, <<DisputeOf(c, t), ResolveOf(c, t)>>) = Current

\* C8: handling a record for one client leaves the account of every other
\* client unchanged and creates no other client's account; histories are per
\* client, so a Dispute, Resolve or Chargeback on a tx that the record's
\* client never deposited changes no account's available, held or locked,
\* also when another client deposited that tx.
C8_ClientIsolation ==
    [][Handled =>
         /\ DOMAIN accounts' = DOMAIN accounts \cup {last'.client}
         /\ \A c \in DOMAIN accounts :
              c # last'.client => accounts'[c] = accounts[c]
         /\ UnknownReferenceCase =>
              \A c \in DOMAIN accounts' :
                /\ accounts'[c].available = AccountOf(accounts, c).available
                /\ accounts'[c].held = AccountOf(accounts, c).held
                /\ accounts'[c].locked = AccountOf(accounts, c).locked]_vars

\* Two clients deposited the same tx with different amounts, and a Dispute
\* by one client on a tx that only the other client deposited was handled.
C8_Witness ==
    /\ n > 0
    /\ last.tx_type = "Dispute"
    /\ DOMAIN accounts = Clients
    /\ \E t \in Txs :
         /\ \A c \in Clients : t \in DOMAIN accounts[c].deposits
         /\ \E c, d \in Clients :
              accounts[c].deposits[t].amount # accounts[d].deposits[t].amount
    /\ last.tx \notin DOMAIN accounts[last.client].deposits
    /\ \E d \in Clients : last.tx \in DOMAIN accounts[d].deposits

\* C10: process_records never aborts: whatever records it is fed, the loop
\* is never ended by a panic of an addition or a subtraction.
C10_NeverAborts == pc # "panicked"

\* C11: after any prefix of the stream the mapping's key set is exactly the
\* set of client ids of the records taken so far, whatever their kind and
\* whether or not they took effect; so no account is ever removed, and a
\* record that is not a Deposit or Withdrawal with an amount, handled for a
\* client seen for the first time, leaves that client's account as
\* Account::new() makes it (available = held = 0, unlocked, empty history),
\* while a first Deposit of amount a leaves available = a and held = 0.
C11_LazyAccountCreation ==
    /\ DOMAIN accounts = seen
    /\ (n > 0 /\ before = AccountNew /\ pc # "panicked") =>
         /\ (last.tx_type \in {"Dispute", "Resolve", "Chargeback"}
               \/ ~IsSome(last.amount))
              => accounts[last.client] = AccountNew
         /\ (last.tx_type = "Deposit" /\ IsSome(last.amount))
              => /\ accounts[last.client].available = Unwrap(last.amount)
                 /\ accounts[last.client].held = 0
                 /\ ~accounts[last.client].locked

\* Both clients are keys, and the last one became a key through a Chargeback
\* that found nothing to charge back.
C11_Witness ==
    /\ n > 0
    /\ seen = Clients
    /\ last.tx_type = "Chargeback"
    /\ accounts[last.client] = AccountNew
    /\ \E c \in Clients : accounts[c] # AccountNew

\* A semantically invalid record: any record for a locked account, a
\* Withdrawal of more than available, a Dispute, Resolve or Chargeback on an
\* unknown tx, a Dispute on a disputed record, a Resolve or Chargeback on a
\* record that is not disputed.
InvalidCase ==
    /\ Handled
    /\ \/ Before.locked
       \/ InsufficientCase
       \/ UnknownReferenceCase
       \/ /\ last'.tx_type = "Dispute"
          /\ last'.tx \in DOMAIN Before.deposits
          /\ Before.deposits[last'.tx].disputed
       \/ /\ last'.tx_type \in {"Resolve", "Chargeback"}
          /\ last'.tx \in DOMAIN Before.deposits
          /\ ~Before.deposits[last'.tx].disputed

\* C12 as stated: every semantically invalid record leaves the whole mapping,
\* its set of client keys included, equal to the mapping before the record.
C12_SilentDropKeepsMapping ==
    [][InvalidCase => accounts' = accounts]_vars

\* C12, amended: every semantically invalid record leaves every account of
\* the mapping as it was and the loop running; the only change it can make to
\* the mapping is the new key of its own client, when that client was not a
\* key yet, with the account Account::new() makes.
C12_SilentDropKeepsAccounts ==
    [][InvalidCase =>
         /\ pc' = "running"
         /\ DOMAIN accounts' = DOMAIN accounts \cup {last'.client}
         /\ \A c \in DOMAIN accounts : accounts'[c] = accounts[c]
         /\ last'.client \notin DOMAIN accounts
              => accounts'[last'.client] = AccountNew]_vars

\* A Dispute on an already disputed record was handled and dropped.
C12_Witness ==
    /\ n > 0
    /\ pc = "running"
    /\ last.tx_type = "Dispute"
    /\ ~before.locked
    /\ last.tx \in DOMAIN before.deposits
    /\ before.deposits[last.tx].disputed
    /\ accounts[last.client] = before

\* The disputed flag of a record says that exactly one dispute is open on it.
FlagMatchesOpen(c, t) ==
    /\ open[c][t] \in {0, 1}
    /\ accounts[c].deposits[t].disputed <=> open[c][t] = 1

\* C13 as stated: after every record, for every account and every tx of its
\* deposit history, the disputed flag is true iff exactly one dispute is open
\* on that tx (a Dispute that took effect, not yet followed by a Resolve or
\* Chargeback on it that took effect), and never two are open.
C13_DisputedFlagInvariant ==
    \A c \in DOMAIN accounts : \A t \in DOMAIN accounts[c].deposits :
      FlagMatchesOpen(c, t)

\* C13, amended: the same, for every tx whose record no Deposit has
\* overwritten while it was disputed.
C13_DisputedFlagUnlessOverwritten ==
    \A c \in DOMAIN accounts : \A t \in DOMAIN accounts[c].deposits :
      <<c, t>> \notin overwritten => FlagMatchesOpen(c, t)

\* A Resolve took effect and closed the dispute of a record that no Deposit
\* has overwritten.
C13_Witness ==
    /\ n > 0
    /\ overwritten = {}
    /\ last.tx_type = "Resolve"
    /\ accounts[last.client] # before
    /\ ~accounts[last.client].deposits[last.tx].disputed
    /\ open[last.client][last.tx] = 0

\* The account of the last record's client, as the loop left it.
after == accounts[last.client]

C15_DepositAccepted ==
    (n > 0 /\ last.tx_type = "Deposit" /\ IsSome(last.amount)
       /\ ~before.locked) =>
      /\ after.available = before.available + Unwrap(last.amount)
      /\ after.held = before.held
      /\ after.locked = before.locked
      /\ last.tx \in DOMAIN after.deposits
      /\ after.deposits[last.tx] = DepositTx(Unwrap(last.amount), FALSE)

\* C16 as stated: a record of a client's history exists in every later
\* state and its amount never changes.
C16_RecordsPermanent ==
    [][\A c \in DOMAIN accounts : \A t \in DOMAIN accounts[c].deposits :
         /\ c \in DOMAIN accounts'
         /\ t \in DOMAIN accounts'[c].deposits
         /\ accounts'[c].deposits[t].amount
              = accounts[c].deposits[t].amount]_vars

\* C16, amended: a record of a client's history exists in every later state;
\* its amount changes only when a Deposit of that client re-uses its tx id,
\* which replaces the record by {the new amount, disputed: false}; every other
\* record modifies at most its disputed flag.
C16_RecordsPermanentUnlessReused ==
    [][\A c \in DOMAIN accounts : \A t \in DOMAIN accounts[c].deposits :
         /\ c \in DOMAIN accounts'
         /\ t \in DOMAIN accounts'[c].deposits
         /\ accounts'[c].deposits[t].amount # accounts[c].deposits[t].amount
              => /\ Handled
                 /\ last'.tx_type = "Deposit"
                 /\ last'.client = c
                 /\ last'.tx = t
                 /\ IsSome(last'.amount)
                 /\ accounts'[c].deposits[t]
                      = DepositTx(Unwrap(last'.amount), FALSE)]_vars

\* A Dispute set the flag of one of two records of a history and left both
\* amounts as they were.
C16_Witness ==
    /\ n > 0
    /\ last.tx_type = "Dispute"
    /\ DOMAIN before.deposits = Txs
    /\ DOMAIN after.deposits = Txs
    /\ ~before.deposits[last.tx].disputed
    /\ after.deposits[last.tx].disputed
    /\ \A t \in Txs : after.deposits[t].amount = before.deposits[t].amount

\* The Dispute, Resolve and Chargeback records of a client and a tx.
ReferencesOf(c, t) ==
    {r \in TransactionRecord :
       /\ r.tx_type \in {"Dispute", "Resolve", "Chargeback"}
       /\ r.client = c
       /\ r.tx = t}

\* C17: a Withdrawal, whether it takes effect or not, leaves the deposit
\* history as it was; so when its tx is no key of the history (no Deposit
\* stored it), a Dispute, Resolve or Chargeback on that tx leaves available,
\* held and locked unchanged.
C17_OnlyDepositsDisputable ==
    (n > 0 /\ last.tx_type = "Withdrawal") =>
      /\ after.deposits = before.deposits
      /\ (pc = "running" /\ last.tx \notin DOMAIN before.deposits) =>
           \A r \in ReferencesOf(last.client, last.tx) :
             LET out == RunFrom(Current, <<r>>) IN
               /\ ~out.panicked
               /\ out.accounts[last.client].available = after.available
               /\ out.accounts[last.client].held = after.held
               /\ out.accounts[last.client].locked = after.locked

\* A Withdrawal of a positive amount took effect on an account with a
\* deposit history, under a tx that no Deposit stored.
C17_Witness ==
    /\ n > 0
    /\ pc = "running"
    /\ last.tx_type = "Withdrawal"
    /\ IsSome(last.amount)
    /\ Unwrap(last.amount) > 0
    /\ after.available = before.available - Unwrap(last.amount)
    /\ ~after.locked
    /\ DOMAIN after.deposits # {}
    /\ last.tx \notin DOMAIN after.deposits

\* The union of the mappings the shards hold.
ShardKeys == UNION {DOMAIN shards[k].accounts : k \in Clients}
Merged ==
    [c \in ShardKeys |->
       shards[CHOOSE k \in Clients : c \in DOMAIN shards[k].accounts].accounts[c]]

\* C18: for every stream and every interleaving of the clients' records in
\* it, the engine run separately on each client's records (in their order in
\* the stream) ends as the single fold over the whole stream does: the
\* shards' mappings have disjoint key sets and their union is the fold's
\* mapping, and the fold is ended by a panic exactly when a shard is.
C18_ShardingEquivalent ==
    /\ pc # "panicked" =>
         /\ \A k \in Clients : ~shards[k].panicked
         /\ \A k \in Clients : DOMAIN shards[k].accounts \subseteq {k}
         /\ Merged = accounts
    /\ pc = "panicked" => \E k \in Clients : shards[k].panicked

\* The records of two clients were interleaved: one shard holds an account
\* with an open dispute, and the last record went to the other shard, whose
\* account earlier records had changed already.
C18_Witness ==
    /\ pc = "running"
    /\ n > 0
    /\ DOMAIN accounts = Clients
    /\ before # AccountNew
    /\ accounts[last.client] # before
    /\ \E c \in Clients :
         /\ c # last.client
         /\ \E t \in DOMAIN accounts[c].deposits : accounts[c].deposits[t].disputed

RECURSIVE DisputedSum(_, _)
DisputedSum(deposits, ts) ==
    IF ts = {} THEN 0
    ELSE LET t == CHOOSE x \in ts : TRUE IN
           (IF deposits[t].disputed THEN deposits[t].amount ELSE 0)
             + DisputedSum(deposits, ts \ {t})

====
